---- MODULE Spec2Model ----
(***************************************************************************)
(* Model of the IOCP engine core of win/iocp.c: the one-time             *)
(* initialisation gate Iocp_DoOnce, the reference-counted IocpChannel     *)
(* (IocpChannelNew / IocpChannelDrop) and the condition-variable          *)
(* block/wake protocol (IocpChannelAwaitCompletion /                      *)
(* IocpChannelWakeAfterCompletion).                                       *)
(*                                                                         *)
(* Each component has its own specification over the shared variables:    *)
(*   SpecOnce      threads racing through Iocp_DoOnce on one gate         *)
(*   SpecChan      the life cycle of one IocpChannel                      *)
(*   SpecWake      the await/wake protocol on one live IocpChannel        *)
(*   FairSpecWake  SpecWake with the scheduler's fairness                 *)
(*   SpecProc      Iocp_Init, IocpProcessInit and the process exit handler *)
(*   SpecTsd       the operations on a thread's IocpTsd                    *)
(*   SpecBuf       IocpDataBuffer and IocpBufferNew                        *)
(***************************************************************************)
EXTENDS Integers, Sequences, FiniteSets

\* ---------------------------------------------------------------- bounds
NumThreads == 3     \* threads in the process
MaxCalls == 2       \* Iocp_DoOnce calls per thread
MaxAcquires == 2    \* references taken on the channel besides the creator's
MaxDrops == 4       \* IocpChannelDrop calls on the channel
MaxAwaits == 2      \* IocpChannelAwaitCompletion calls of the user thread
MaxWakes == 2       \* IocpChannelWakeAfterCompletion calls in total
MaxLinkCalls == 1   \* IocpTsdLinkChannel calls on the channel
MaxExits == 2       \* times the process exit handler fires
MaxInits == 1       \* Iocp_Init calls per thread that get past Tcl_InitStubs
MaxTsdRefs == 2     \* references on a thread's IocpTsd
MaxReady == 1       \* channels queued on a thread's IocpTsd
MaxUnlinks == 2     \* IocpTsdUnlinkThread calls
MaxThreadInits == 2 \* direct IocpThreadInit calls
MaxCap == 2         \* requested capacity of a data buffer
MaxMoves == 3       \* IocpDataBufferMove calls on a data buffer

Threads == 1 .. NumThreads

\* ------------------------------------------------------- program constants
\* enum in Iocp_DoOnce
IOCP_INITSTATE_INIT == 0
IOCP_INITSTATE_IN_PROGRESS == 1
IOCP_INITSTATE_DONE == 2
IOCP_INITSTATE_ERROR == 3

TCL_OK == "TCL_OK"
TCL_ERROR == "TCL_ERROR"
NoResult == "none"

VARIABLES
    \* ---- Iocp_DoOnce on one gate
    stateP,         \* the Iocp_DoOnceState cell *stateP
    oncePc,         \* per thread: position inside Iocp_DoOnce
    fnRet,          \* per thread: what once_fn returned to this thread
    ret,            \* per thread: value returned by its last Iocp_DoOnce call
    calls,          \* per thread: number of Iocp_DoOnce calls started
    onceRuns,       \* number of executions of once_fn
    onceResult,     \* result of the (last) execution of once_fn
    \* ---- one IocpChannel
    numRefs,        \* chanPtr->numRefs
    chanLock,       \* chanPtr->lock: the holding thread, or Unlocked
    tsdPtr,         \* chanPtr->tsdPtr
    readyLinked,    \* chanPtr->readyLink is in a ready queue
    blocked,        \* chanPtr->flags & IOCP_CHAN_F_BLOCKED_FOR_IO
    hasFinalize,    \* chanPtr->vtblPtr->finalize != NULL
    chanAlloc,      \* the storage of the channel is allocated
    chanLog,        \* what the IocpChannelDrop calls did, in order
    acquires,       \* references taken after IocpChannelNew
    drops,          \* IocpChannelDrop calls made
    \* ---- await / wake on the channel
    chPc,           \* per thread: position in the await/wake protocol
    cvWaiters,      \* threads blocked on chanPtr->cv
    awaits,         \* IocpChannelAwaitCompletion calls entered
    awaitsReturned, \* IocpChannelAwaitCompletion calls returned
    wakes,          \* IocpChannelWakeAfterCompletion calls made
    signals,        \* WakeConditionVariable calls made
    \* ---- process-wide completion subsystem (iocpModuleState)
    completion_port,    \* iocpModuleState.completion_port: NULL or a handle
    completion_thread,  \* iocpModuleState.completion_thread: NULL or a handle
    portHandles,        \* completion-port handles open in the process
    threadHandles,      \* dispatcher thread handles open in the process
    wsaRefs,            \* successful WSAStartup calls not yet cleaned up
    dispatcher,         \* the dispatcher thread: none, running, exited, terminated
    exitHandlers,       \* IocpProcessExitHandler registrations
    procLog,            \* the system calls of init and cleanup, in order
    initsDone,          \* per thread: Iocp_Init calls finished
    initRet,            \* what the last Iocp_Init to return returned
    cmdRegs,            \* Tcl_CreateObjCommand("iocp::socket") calls
    pkgProvides,        \* Tcl_PkgProvide calls
    cleanupFlag,        \* iocpProcessCleanupFlag
    exitPc,             \* per thread: position inside the exit handler
    exitCalls,          \* times the exit handler has fired
    cleanupRuns,        \* executions of IocpProcessCleanup
    \* ---- per-thread IocpTsd
    tsdSlot,            \* per thread: *IOCP_TSD_INIT(&iocpTsdDataKey)
    tsdAlloc,           \* per TSD: its storage is allocated
    tsdRefs,            \* per TSD: numRefs
    tsdThreadId,        \* per TSD: threadId
    tsdLock,            \* per TSD: the thread holding its lock, or Unlocked
    tsdReady,           \* per TSD: length of readyChannels
    tsdFrees,           \* per TSD: ckfree calls on it
    panicked,           \* the process was aborted (Tcl_Panic, or a fault)
    eventSources,       \* per thread: Tcl_CreateEventSource registrations
    threadExitHandlers, \* per thread: IocpThreadExitHandler registrations
    threadInits,        \* IocpThreadInit calls made
    threadInitRet,      \* what the last IocpThreadInit returned
    tsdCaller,          \* the thread that made the last call on its TSD slot
    unlinkCalls,        \* IocpTsdUnlinkThread calls made
    linkCalls,          \* IocpTsdLinkChannel calls made
    \* ---- one IocpDataBuffer, inside an IocpBuffer or on its own
    dbPc,               \* raw (uninitialised), ready, or crashed
    dbCapacity,         \* dataBuf->capacity
    dbBegin,            \* dataBuf->begin
    dbLen,              \* dataBuf->len
    dbDataPtr,          \* dataBuf->dataPtr != NULL
    moves,              \* IocpDataBufferMove calls returned
    lastReq,            \* len argument of the last IocpDataBufferMove
    moveRet,            \* what the last IocpDataBufferMove returned
    totalReturned,      \* sum of the IocpDataBufferMove results
    written,            \* bytes put into the buffer
    copied,             \* bytes memcpy'd out of the buffer
    bufNewRet,          \* what IocpBufferNew returned: none, NULL, buffer
    bufStruct,          \* the IocpBuffer structure is allocated
    allocFailed         \* an attemptckalloc call has failed

onceVars == <<stateP, oncePc, fnRet, ret, calls, onceRuns, onceResult>>
chanVars == <<numRefs, chanLock, tsdPtr, readyLinked, blocked, hasFinalize,
              chanAlloc, chanLog, acquires, drops>>
wakeVars == <<chPc, cvWaiters, awaits, awaitsReturned, wakes, signals>>
procVars == <<completion_port, completion_thread, portHandles, threadHandles,
              wsaRefs, dispatcher, exitHandlers, procLog, initsDone, initRet,
              cmdRegs, pkgProvides, cleanupFlag, exitPc, exitCalls,
              cleanupRuns>>
tsdVars == <<tsdSlot, tsdAlloc, tsdRefs, tsdThreadId, tsdLock, tsdReady, tsdFrees,
             panicked, eventSources, threadExitHandlers, threadInits,
             threadInitRet, tsdCaller, unlinkCalls>>
bufVars == <<dbPc, dbCapacity, dbBegin, dbLen, dbDataPtr, moves, lastReq, moveRet,
             totalReturned, written, copied, bufNewRet, bufStruct, allocFailed>>
vars == <<onceVars, chanVars, wakeVars, procVars, tsdVars, linkCalls, bufVars>>

\* =====================================================================
\* Iocp_DoOnce
\* =====================================================================

\* New value of *dest after InterlockedCompareExchange(dest, exch, cmp);
\* the call returns the old value of *dest.
InterlockedCompareExchangeNoSwap(dest, exch, cmp) == dest

InterlockedCompareExchange(dest, exch, cmp) == IF dest = cmp THEN exch ELSE dest

\* The switch on the value the first compare-exchange returned.
SwitchCaseRetryOnError(prev) ==
    CASE prev = IOCP_INITSTATE_DONE -> "return_ok"
      [] prev = IOCP_INITSTATE_IN_PROGRESS -> "loop"
      [] prev = IOCP_INITSTATE_INIT -> "once_fn"
      [] prev = IOCP_INITSTATE_ERROR -> "once_fn"
      [] OTHER -> "return_error"

SwitchCaseNoWait(prev) ==
    CASE prev = IOCP_INITSTATE_DONE -> "return_ok"
      [] prev = IOCP_INITSTATE_IN_PROGRESS -> "return_ok"
      [] prev = IOCP_INITSTATE_INIT -> "once_fn"
      [] prev = IOCP_INITSTATE_ERROR -> "return_error"
      [] OTHER -> "return_error"

SwitchCase(prev) ==
    CASE prev = IOCP_INITSTATE_DONE -> "return_ok"
      [] prev = IOCP_INITSTATE_IN_PROGRESS -> "loop"
      [] prev = IOCP_INITSTATE_INIT -> "once_fn"
      [] prev = IOCP_INITSTATE_ERROR -> "return_error"
      [] OTHER -> "return_error"

\* One round of the wait loop, on the value its compare-exchange returned.
LoopCaseOkUnlessInProgress(prev_state) ==
    IF prev_state # IOCP_INITSTATE_IN_PROGRESS THEN "return_ok" ELSE "sleep"

LoopCaseWaitsForDone(prev_state) ==
    IF prev_state = IOCP_INITSTATE_DONE THEN "return_ok" ELSE "sleep"

LoopCase(prev_state) ==
    IF prev_state = IOCP_INITSTATE_DONE THEN "return_ok"
    ELSE IF prev_state # IOCP_INITSTATE_IN_PROGRESS THEN "return_error"
    ELSE "sleep"

\* Thread t leaves Iocp_DoOnce at branch `where`, or moves on inside it.
OnceGoto(t, where) ==
    CASE where = "return_ok" ->
            /\ oncePc' = [oncePc EXCEPT ![t] = "idle"]
            /\ ret' = [ret EXCEPT ![t] = TCL_OK]
      [] where = "return_error" ->
            /\ oncePc' = [oncePc EXCEPT ![t] = "idle"]
            /\ ret' = [ret EXCEPT ![t] = TCL_ERROR]
      [] OTHER ->
            /\ oncePc' = [oncePc EXCEPT ![t] = where]
            /\ UNCHANGED ret

\* A thread calls Iocp_DoOnce(stateP, once_fn, clientdata).
OnceCall(t) ==
    /\ oncePc[t] = "idle"
    /\ calls[t] < MaxCalls
    /\ calls' = [calls EXCEPT ![t] = @ + 1]
    /\ oncePc' = [oncePc EXCEPT ![t] = "switch"]
    /\ UNCHANGED <<stateP, fnRet, ret, onceRuns, onceResult>>
    /\ UNCHANGED <<chanVars, wakeVars, procVars, tsdVars, linkCalls, bufVars>>

\* switch (InterlockedCompareExchange(stateP, IN_PROGRESS, INIT))
OnceSwitch(t) ==
    /\ oncePc[t] = "switch"
    /\ stateP' = InterlockedCompareExchange(stateP, IOCP_INITSTATE_IN_PROGRESS,
                                            IOCP_INITSTATE_INIT)
    /\ OnceGoto(t, SwitchCase(stateP))
    /\ UNCHANGED <<fnRet, calls, onceRuns, onceResult>>
    /\ UNCHANGED <<chanVars, wakeVars, procVars, tsdVars, linkCalls, bufVars>>

\* prev_state = InterlockedCompareExchange(stateP, IN_PROGRESS, IN_PROGRESS)
OnceLoop(t) ==
    /\ oncePc[t] = "loop"
    /\ stateP' = InterlockedCompareExchange(stateP, IOCP_INITSTATE_IN_PROGRESS,
                                            IOCP_INITSTATE_IN_PROGRESS)
    /\ OnceGoto(t, LoopCase(stateP))
    /\ UNCHANGED <<fnRet, calls, onceRuns, onceResult>>
    /\ UNCHANGED <<chanVars, wakeVars, procVars, tsdVars, linkCalls, bufVars>>

\* Sleep(1), then the next round of the loop.
OnceSleep(t) ==
    /\ oncePc[t] = "sleep"
    /\ oncePc' = [oncePc EXCEPT ![t] = "loop"]
    /\ UNCHANGED <<stateP, fnRet, ret, calls, onceRuns, onceResult>>
    /\ UNCHANGED <<chanVars, wakeVars, procVars, tsdVars, linkCalls, bufVars>>

\* once_fn(clientdata) runs and returns TCL_OK or TCL_ERROR.
OnceFn(t) ==
    /\ oncePc[t] = "once_fn"
    /\ \E r \in {TCL_OK, TCL_ERROR} :
          /\ fnRet' = [fnRet EXCEPT ![t] = r]
          /\ onceResult' = r
    /\ onceRuns' = onceRuns + 1
    /\ oncePc' = [oncePc EXCEPT ![t] = "store"]
    /\ UNCHANGED <<stateP, ret, calls>>
    /\ UNCHANGED <<chanVars, wakeVars, procVars, tsdVars, linkCalls, bufVars>>

\* InterlockedExchange(stateP, DONE) and return TCL_OK, or
\* InterlockedExchange(stateP, ERROR) and fall out to return TCL_ERROR.
OnceStore(t) ==
    /\ oncePc[t] = "store"
    /\ IF fnRet[t] = TCL_OK
         THEN /\ stateP' = IOCP_INITSTATE_DONE
              /\ OnceGoto(t, "return_ok")
         ELSE /\ stateP' = IOCP_INITSTATE_ERROR
              /\ OnceGoto(t, "return_error")
    /\ fnRet' = [fnRet EXCEPT ![t] = NoResult]
    /\ UNCHANGED <<calls, onceRuns, onceResult>>
    /\ UNCHANGED <<chanVars, wakeVars, procVars, tsdVars, linkCalls, bufVars>>

Iocp_DoOnce(t) ==
    \/ OnceCall(t)
    \/ OnceSwitch(t)
    \/ OnceLoop(t)
    \/ OnceSleep(t)
    \/ OnceFn(t)
    \/ OnceStore(t)

InitOnce ==
    /\ stateP = IOCP_INITSTATE_INIT
    /\ oncePc = [t \in Threads |-> "idle"]
    /\ fnRet = [t \in Threads |-> NoResult]
    /\ ret = [t \in Threads |-> NoResult]
    /\ calls = [t \in Threads |-> 0]
    /\ onceRuns = 0
    /\ onceResult = NoResult


\* =====================================================================
\* IocpChannel: life cycle
\* =====================================================================

NULL == 0           \* chanPtr->tsdPtr = NULL
Unlocked == 0       \* IocpLockInit(&chanPtr->lock): no holder

Count(log, e) == Cardinality({i \in DOMAIN log : log[i] = e})

\* State of the channel IocpChannelNew returns. The flags field is not
\* assigned by IocpChannelNew: the storage comes from ckalloc, so the
\* blocked-for-I/O bit holds whatever the allocation held.
IocpChannelNew ==
    /\ tsdPtr = NULL
    /\ readyLinked = FALSE
    /\ cvWaiters = {}
    /\ chanLock = Unlocked
    /\ numRefs = 1
    /\ hasFinalize \in BOOLEAN
    /\ blocked \in BOOLEAN
    /\ chanAlloc = TRUE

\* IocpChannelLock(chanPtr)
IocpChannelLock(t) ==
    /\ chPc[t] = "idle"
    /\ chanLock = Unlocked
    /\ chanLock' = t
    /\ chPc' = [chPc EXCEPT ![t] = "locked"]
    /\ UNCHANGED <<numRefs, tsdPtr, readyLinked, blocked, hasFinalize, chanAlloc,
                   chanLog, acquires, drops>>
    /\ UNCHANGED <<cvWaiters, awaits, awaitsReturned, wakes, signals>>
    /\ UNCHANGED <<onceVars, procVars, tsdVars, linkCalls, bufVars>>

\* IocpChannelUnlock(chanPtr)
IocpChannelUnlock(t) ==
    /\ chPc[t] \in {"locked", "returned"}
    /\ chanLock = t
    /\ chanLock' = Unlocked
    /\ chPc' = [chPc EXCEPT ![t] = "idle"]
    /\ UNCHANGED <<numRefs, tsdPtr, readyLinked, blocked, hasFinalize, chanAlloc,
                   chanLog, acquires, drops>>
    /\ UNCHANGED <<cvWaiters, awaits, awaitsReturned, wakes, signals>>
    /\ UNCHANGED <<onceVars, procVars, tsdVars, linkCalls, bufVars>>

\* A holder of the locked channel takes one more reference.
IocpChannelAcquire(t) ==
    /\ chanLock = t
    /\ chanAlloc
    /\ acquires < MaxAcquires
    /\ numRefs' = numRefs + 1
    /\ acquires' = acquires + 1
    /\ UNCHANGED <<chanLock, tsdPtr, readyLinked, blocked, hasFinalize, chanAlloc,
                   chanLog, drops>>
    /\ UNCHANGED wakeVars
    /\ UNCHANGED <<onceVars, procVars, tsdVars, linkCalls, bufVars>>

\* The locked channel is appended to the ready queue of the TSD of thread t:
\* the owning-TSD link is set and the queue entry holds a reference.
LinkChannel(t) ==
    /\ chanLock = t
    /\ chanAlloc
    /\ tsdPtr = NULL
    /\ ~readyLinked
    /\ tsdPtr' = t
    /\ readyLinked' = TRUE
    /\ numRefs' = numRefs + 1
    /\ acquires' = acquires + 1
    /\ UNCHANGED <<chanLock, blocked, hasFinalize, chanAlloc, chanLog, drops>>
    /\ UNCHANGED wakeVars
    /\ UNCHANGED <<onceVars, procVars, tsdVars, linkCalls, bufVars>>

\* if (--lockedChanPtr->numRefs <= 0)
DropFreesBelowZero(refs) == refs < 0

DropFrees(refs) == refs <= 0

\* The body of the if: finalize hook (when set), unlock, lock delete, ckfree.
DropFreeSteps ==
    (IF hasFinalize THEN <<"finalize">> ELSE <<>>)
        \o <<"unlock", "lock_delete", "ckfree">>

\* What a read of numRefs can give: the field while the channel is allocated;
\* through a dangling pointer, what the field last held or what the storage
\* holds by now.
NumRefsRead == IF chanAlloc THEN {numRefs} ELSE {numRefs} \cup (0 .. 2)

IocpChannelDrop(t) ==
    /\ chanLock = t
    /\ drops < MaxDrops
    /\ drops' = drops + 1
    /\ \E cur \in NumRefsRead :
          /\ numRefs' = cur - 1
          /\ IF DropFrees(cur - 1)
               THEN /\ chanLog' = chanLog \o DropFreeSteps
                    /\ chanLock' = Unlocked
                    /\ chPc' = [chPc EXCEPT ![t] = "idle"]
                    /\ chanAlloc' = FALSE
               ELSE UNCHANGED <<chanLog, chanLock, chPc, chanAlloc>>
    /\ UNCHANGED <<tsdPtr, readyLinked, blocked, hasFinalize, acquires>>
    /\ UNCHANGED <<cvWaiters, awaits, awaitsReturned, wakes, signals>>
    /\ UNCHANGED <<onceVars, procVars, tsdVars, linkCalls, bufVars>>

InitChan ==
    /\ IocpChannelNew
    /\ chanLog = <<>>
    /\ acquires = 0
    /\ drops = 0

\* =====================================================================
\* IocpChannel: await / wake
\* =====================================================================

\* The thread that owns the channel and blocks on it; the other threads
\* (the completion thread among them) are the ones that wake it.
User == CHOOSE t \in Threads : \A u \in Threads : t <= u

\* lockedChanPtr->flags |= IOCP_CHAN_F_BLOCKED_FOR_IO
AwaitFlagsUnset(flags) == flags

AwaitFlags(flags) == TRUE

\* IocpConditionVariableWaitShared(&cv, &lock, INFINITE), first half: the
\* lock is released and the thread blocks on the condition variable.
ConditionVariableWaitEnter(t) ==
    /\ chanLock' = Unlocked
    /\ cvWaiters' = cvWaiters \cup {t}
    /\ chPc' = [chPc EXCEPT ![t] = "waiting"]

IocpChannelAwaitCompletion(t) ==
    /\ t = User
    /\ chPc[t] \in {"locked", "returned"}
    /\ chanLock = t
    /\ awaits < MaxAwaits
    /\ awaits' = awaits + 1
    /\ blocked' = AwaitFlags(blocked)
    /\ ConditionVariableWaitEnter(t)
    /\ UNCHANGED <<numRefs, tsdPtr, readyLinked, hasFinalize, chanAlloc, chanLog,
                   acquires, drops>>
    /\ UNCHANGED <<awaitsReturned, wakes, signals>>
    /\ UNCHANGED <<onceVars, procVars, tsdVars, linkCalls, bufVars>>

\* A blocked thread is released without any WakeConditionVariable call.
SpuriousWakeup(t) ==
    /\ t \in cvWaiters
    /\ cvWaiters' = cvWaiters \ {t}
    /\ chPc' = [chPc EXCEPT ![t] = "woken"]
    /\ UNCHANGED chanVars
    /\ UNCHANGED <<awaits, awaitsReturned, wakes, signals>>
    /\ UNCHANGED <<onceVars, procVars, tsdVars, linkCalls, bufVars>>

\* IocpConditionVariableWaitShared, second half: the released thread takes
\* the lock again and IocpChannelAwaitCompletion returns.
ConditionVariableWaitReturn(t) ==
    /\ chPc[t] = "woken"
    /\ chanLock = Unlocked
    /\ chanLock' = t
    /\ chPc' = [chPc EXCEPT ![t] = "returned"]
    /\ awaitsReturned' = awaitsReturned + 1
    /\ UNCHANGED <<numRefs, tsdPtr, readyLinked, blocked, hasFinalize, chanAlloc,
                   chanLog, acquires, drops>>
    /\ UNCHANGED <<cvWaiters, awaits, wakes, signals>>
    /\ UNCHANGED <<onceVars, procVars, tsdVars, linkCalls, bufVars>>

\* WakeConditionVariable(&cv): one blocked thread, if any, is released.
WakeConditionVariable(t) ==
    /\ signals' = signals + 1
    /\ IF cvWaiters = {}
         THEN UNCHANGED <<cvWaiters, chPc>>
         ELSE \E w \in cvWaiters :
                 /\ cvWaiters' = cvWaiters \ {w}
                 /\ chPc' = [chPc EXCEPT ![w] = "woken"]

\* if (flags & IOCP_CHAN_F_BLOCKED_FOR_IO) flags &= ~IOCP_CHAN_F_BLOCKED_FOR_IO
WakeFlags(flags) == FALSE

\* if (flags & IOCP_CHAN_F_BLOCKED_FOR_IO) WakeConditionVariable(&cv)
WakeSignalsAlways(flags) == TRUE

WakeSignalsNever(flags) == FALSE

WakeSignals(flags) == flags

IocpChannelWakeAfterCompletion(t) ==
    /\ t # User
    /\ chPc[t] = "locked"
    /\ chanLock = t
    /\ wakes < MaxWakes
    /\ wakes' = wakes + 1
    /\ blocked' = WakeFlags(blocked)
    /\ IF WakeSignals(blocked)
         THEN WakeConditionVariable(t)
         ELSE UNCHANGED <<signals, cvWaiters, chPc>>
    /\ UNCHANGED <<numRefs, chanLock, tsdPtr, readyLinked, hasFinalize, chanAlloc,
                   chanLog, acquires, drops>>
    /\ UNCHANGED <<awaits, awaitsReturned>>
    /\ UNCHANGED <<onceVars, procVars, tsdVars, linkCalls, bufVars>>

InitWake ==
    /\ chPc = [t \in Threads |-> "idle"]
    /\ awaits = 0
    /\ awaitsReturned = 0
    /\ wakes = 0
    /\ signals = 0


\* =====================================================================
\* IocpTsd: the per-thread dispatch structure
\* =====================================================================

\* IOCP_TSD_INIT(&iocpTsdDataKey): the address of the calling thread's slot
\* for its IocpTsd pointer. The thread's data block always exists, so the
\* address is never NULL.
TsdSlotAddr(t) == t

\* IocpTsdNew for thread t: an allocated, LOCKED IocpTsd with an empty ready
\* list, the current thread's id and one reference.
IocpTsdNew(t) ==
    /\ tsdAlloc' = [tsdAlloc EXCEPT ![t] = TRUE]
    /\ tsdReady' = [tsdReady EXCEPT ![t] = 0]
    /\ tsdLock' = [tsdLock EXCEPT ![t] = t]
    /\ tsdThreadId' = [tsdThreadId EXCEPT ![t] = t]
    /\ tsdRefs' = [tsdRefs EXCEPT ![t] = 1]

\* The body of IocpThreadInit: the test is on the slot's address, not on the
\* slot; under it IocpTsdNew runs and its result is stored through that
\* (NULL) address, which faults, and the hooks after it are not reached.
IocpThreadInitBody(t) ==
    /\ threadInits' = threadInits + 1
    /\ threadInitRet' = TCL_OK
    /\ tsdCaller' = t
    /\ IF TsdSlotAddr(t) = NULL
         THEN /\ IocpTsdNew(t)
              /\ panicked' = TRUE
         ELSE UNCHANGED <<tsdAlloc, tsdReady, tsdLock, tsdThreadId, tsdRefs, panicked>>
    /\ UNCHANGED <<tsdSlot, tsdFrees, eventSources, threadExitHandlers, unlinkCalls>>

IocpThreadInit(t) ==
    /\ ~panicked
    /\ threadInits < MaxThreadInits
    /\ IocpThreadInitBody(t)
    /\ UNCHANGED <<onceVars, chanVars, wakeVars, procVars, linkCalls, bufVars>>

\* do_free = (lockedTsdPtr->numRefs <= 0)
TsdDoFree(refs) == refs <= 0

\* if (do_free) if (readyChannels.headPtr) Tcl_Panic(...)
TsdPanicsNever(do_free, ready) == FALSE

TsdPanics(do_free, ready) == do_free /\ ready # 0

\* IocpTsdDrop on TSD i, locked by thread t on entry. Tcl_Panic aborts the
\* process: nothing after it runs.
IocpTsdDrop(t, i) ==
    LET refs == tsdRefs[i] - 1
        do_free == TsdDoFree(refs)
    IN  /\ tsdRefs' = [tsdRefs EXCEPT ![i] = refs]
        /\ IF TsdPanics(do_free, tsdReady[i])
             THEN /\ panicked' = TRUE
                  /\ tsdLock' = [tsdLock EXCEPT ![i] = t]
                  /\ UNCHANGED <<tsdAlloc, tsdFrees>>
             ELSE /\ UNCHANGED panicked
                  /\ tsdLock' = [tsdLock EXCEPT ![i] = Unlocked]
                  /\ IF do_free
                       THEN /\ tsdAlloc' = [tsdAlloc EXCEPT ![i] = FALSE]
                            /\ tsdFrees' = [tsdFrees EXCEPT ![i] = @ + 1]
                       ELSE UNCHANGED <<tsdAlloc, tsdFrees>>

\* *tsdPtrPtr = NULL
UnlinkKeepsSlot(slot) == slot

UnlinkClearsSlot(slot) == NULL

\* The body of IocpTsdUnlinkThread.
IocpTsdUnlinkThreadBody(t) ==
    /\ unlinkCalls' = unlinkCalls + 1
    /\ tsdCaller' = t
    /\ IF TsdSlotAddr(t) # NULL /\ tsdSlot[t] # NULL
         THEN /\ tsdLock[tsdSlot[t]] = Unlocked
              /\ tsdSlot' = [tsdSlot EXCEPT ![t] = UnlinkClearsSlot(@)]
              /\ tsdThreadId' = [tsdThreadId EXCEPT ![tsdSlot[t]] = 0]
              /\ IocpTsdDrop(t, tsdSlot[t])
         ELSE UNCHANGED <<tsdSlot, tsdThreadId, tsdRefs, tsdLock, tsdAlloc,
                          tsdFrees, panicked>>
    /\ UNCHANGED <<tsdReady, threadInits, threadInitRet>>

IocpTsdUnlinkThread(t) ==
    /\ ~panicked
    /\ unlinkCalls < MaxUnlinks
    /\ IocpTsdUnlinkThreadBody(t)
    /\ UNCHANGED <<eventSources, threadExitHandlers>>
    /\ UNCHANGED <<onceVars, chanVars, wakeVars, procVars, linkCalls, bufVars>>

\* IocpThreadExitHandler, run by Tcl when the thread exits if it was
\* registered: IocpTsdUnlinkThread, then Tcl_DeleteEventSource.
IocpThreadExitHandler(t) ==
    /\ ~panicked
    /\ threadExitHandlers[t] > 0
    /\ unlinkCalls < MaxUnlinks
    /\ IocpTsdUnlinkThreadBody(t)
    /\ threadExitHandlers' = [threadExitHandlers EXCEPT ![t] = @ - 1]
    /\ eventSources' = [eventSources EXCEPT ![t] = IF @ > 0 THEN @ - 1 ELSE @]
    /\ UNCHANGED <<onceVars, chanVars, wakeVars, procVars, linkCalls, bufVars>>

\* IocpTsdLinkChannel(lockedChannelPtr): the body is "//TBD;".
IocpTsdLinkChannel(t) ==
    /\ chanLock = t
    /\ chanAlloc
    /\ tsdPtr = NULL
    /\ ~readyLinked
    /\ linkCalls < MaxLinkCalls
    /\ linkCalls' = linkCalls + 1
    /\ UNCHANGED <<onceVars, chanVars, wakeVars, procVars, tsdVars, bufVars>>

\* No thread has a TSD: the state of a process before any IocpThreadInit.
InitTsd ==
    /\ tsdSlot = [t \in Threads |-> NULL]
    /\ tsdAlloc = [t \in Threads |-> FALSE]
    /\ tsdRefs = [t \in Threads |-> 0]
    /\ tsdThreadId = [t \in Threads |-> 0]
    /\ tsdLock = [t \in Threads |-> Unlocked]
    /\ tsdReady = [t \in Threads |-> 0]
    /\ tsdFrees = [t \in Threads |-> 0]
    /\ panicked = FALSE
    /\ eventSources = [t \in Threads |-> 0]
    /\ threadExitHandlers = [t \in Threads |-> 0]
    /\ threadInits = 0
    /\ threadInitRet = NoResult
    /\ tsdCaller = NULL
    /\ unlinkCalls = 0
    /\ linkCalls = 0

\* The TSDs the operations are applied to: the slot of the user thread is
\* empty, or holds an unlocked TSD of that thread with its hooks registered,
\* some references and some queued channels; the other threads have none.
TsdGiven ==
    /\ tsdSlot \in [Threads -> {NULL} \cup Threads]
    /\ \A t \in Threads : tsdSlot[t] \in (IF t = User THEN {NULL, t} ELSE {NULL})
    /\ tsdAlloc = [t \in Threads |-> tsdSlot[t] # NULL]
    /\ tsdRefs \in [Threads -> 0 .. MaxTsdRefs]
    /\ \A t \in Threads : (tsdRefs[t] = 0) <=> (tsdSlot[t] = NULL)
    /\ tsdThreadId = [t \in Threads |-> tsdSlot[t]]
    /\ tsdLock = [t \in Threads |-> Unlocked]
    /\ tsdReady \in [Threads -> 0 .. MaxReady]
    /\ \A t \in Threads : tsdSlot[t] = NULL => tsdReady[t] = 0
    /\ tsdFrees = [t \in Threads |-> 0]
    /\ panicked = FALSE
    /\ eventSources = [t \in Threads |-> IF tsdSlot[t] # NULL THEN 1 ELSE 0]
    /\ threadExitHandlers = [t \in Threads |-> IF tsdSlot[t] # NULL THEN 1 ELSE 0]
    /\ threadInits = 0
    /\ threadInitRet = NoResult
    /\ tsdCaller = NULL
    /\ unlinkCalls = 0
    /\ linkCalls = 0


\* =====================================================================
\* Iocp_Init, IocpProcessInit, IocpProcessCleanup
\* =====================================================================

\* A non-NULL HANDLE.
Handle == NULL + 1

\* The integer behind a Tcl result code (TCL_OK is 0, TCL_ERROR is 1).
TclCode(rc) == IF rc = TCL_OK THEN 0 ELSE 1

\* The test Iocp_Init makes on IocpThreadInit's result: ! IocpThreadInit(interp)
ThreadInitRejected(rc) == TclCode(rc) = 0

\* Iocp_Init fails inside Tcl_InitStubs, before anything else. The package
\* is not loaded any more once the process has begun to exit.
Iocp_InitStubsFail(t) ==
    /\ exitCalls = 0
    /\ oncePc[t] = "idle"
    /\ initsDone[t] = calls[t]
    /\ initRet' = TCL_ERROR
    /\ UNCHANGED <<completion_port, completion_thread, portHandles, threadHandles,
                   wsaRefs, dispatcher, exitHandlers, procLog, initsDone,
                   cmdRegs, pkgProvides, cleanupFlag, exitPc, exitCalls,
                   cleanupRuns>>
    /\ UNCHANGED <<onceVars, chanVars, wakeVars, tsdVars, linkCalls, bufVars>>

\* Iocp_Init enters Iocp_DoOnce(&iocpProcessInitFlag, IocpProcessInit, interp).
Iocp_InitCall(t) ==
    /\ exitCalls = 0
    /\ initsDone[t] = calls[t]
    /\ calls[t] < MaxInits
    /\ OnceCall(t)

\* Which failing step of IocpProcessInit closes the completion port.
ClosesPortOnFailure(failed) == failed \in {"WSAStartup", "CreateThread"}

\* Which failing step of IocpProcessInit calls WSACleanup.
CleansWsaNever(failed) == FALSE

CleansWsaOnFailure(failed) == failed = "CreateThread"

\* Tcl_CreateExitHandler(IocpProcessExitHandler, NULL) is reached only when
\* no step failed.
RegistersExitHandlerAlways(failed) == TRUE

RegistersExitHandler(failed) == failed = "none"

\* IocpProcessInit as the once_fn of the process-init gate. `failed` is the
\* system call that fails, if any.
IocpProcessInit(t) ==
    /\ oncePc[t] = "once_fn"
    /\ \E failed \in {"CreateIoCompletionPort", "WSAStartup", "CreateThread", "none"} :
        LET portMade == failed # "CreateIoCompletionPort"
            wsaUp == portMade /\ failed # "WSAStartup"
            thrMade == wsaUp /\ failed # "CreateThread"
            closes == portMade /\ ClosesPortOnFailure(failed)
            cleans == wsaUp /\ CleansWsaOnFailure(failed)
            r == IF failed = "none" THEN TCL_OK ELSE TCL_ERROR
        IN  /\ completion_port' = IF portMade /\ ~closes THEN Handle ELSE NULL
            /\ portHandles' = portHandles + (IF portMade THEN 1 ELSE 0)
                                          - (IF closes THEN 1 ELSE 0)
            /\ wsaRefs' = wsaRefs + (IF wsaUp THEN 1 ELSE 0)
                                  - (IF cleans THEN 1 ELSE 0)
            /\ completion_thread' = IF thrMade THEN Handle ELSE completion_thread
            /\ threadHandles' = threadHandles + (IF thrMade THEN 1 ELSE 0)
            /\ dispatcher' = IF thrMade THEN "running" ELSE dispatcher
            /\ exitHandlers' = exitHandlers
                                + (IF RegistersExitHandler(failed) THEN 1 ELSE 0)
            /\ fnRet' = [fnRet EXCEPT ![t] = r]
            /\ onceResult' = r
    /\ onceRuns' = onceRuns + 1
    /\ oncePc' = [oncePc EXCEPT ![t] = "store"]
    /\ UNCHANGED <<stateP, ret, calls>>
    /\ UNCHANGED <<procLog, initsDone, initRet, cmdRegs, pkgProvides,
                   cleanupFlag, exitPc, exitCalls, cleanupRuns>>
    /\ UNCHANGED <<chanVars, wakeVars, tsdVars, linkCalls, bufVars>>

\* The rest of Iocp_Init once Iocp_DoOnce has returned: IocpThreadInit, the
\* test on its result, the command and the package.
Iocp_InitFinish(t) ==
    /\ oncePc[t] = "idle"
    /\ calls[t] > initsDone[t]
    /\ initsDone' = [initsDone EXCEPT ![t] = @ + 1]
    /\ IF ret[t] # TCL_OK
         THEN /\ initRet' = TCL_ERROR
              /\ UNCHANGED <<cmdRegs, pkgProvides, tsdVars>>
         ELSE /\ IocpThreadInitBody(t)
              /\ IF ThreadInitRejected(threadInitRet')
                   THEN /\ initRet' = TCL_ERROR
                        /\ UNCHANGED <<cmdRegs, pkgProvides>>
                   ELSE /\ initRet' = TCL_OK
                        /\ cmdRegs' = cmdRegs + 1
                        /\ pkgProvides' = pkgProvides + 1
    /\ UNCHANGED <<completion_port, completion_thread, portHandles, threadHandles,
                   wsaRefs, dispatcher, exitHandlers, procLog, cleanupFlag, exitPc, exitCalls, cleanupRuns>>
    /\ UNCHANGED <<onceVars, chanVars, wakeVars, linkCalls, bufVars>>

\* IocpCompletionThread: the dispatcher's body returns at once.
IocpCompletionThread ==
    /\ dispatcher = "running"
    /\ dispatcher' = "exited"
    /\ UNCHANGED <<completion_port, completion_thread, portHandles, threadHandles,
                   wsaRefs, exitHandlers, procLog, initsDone, initRet, cmdRegs, pkgProvides, cleanupFlag, exitPc, exitCalls,
                   cleanupRuns>>
    /\ UNCHANGED <<onceVars, chanVars, wakeVars, tsdVars, linkCalls, bufVars>>

exitFrame == <<completion_port, completion_thread, portHandles, threadHandles,
               wsaRefs, dispatcher, exitHandlers, procLog, initsDone, initRet,
               cmdRegs, pkgProvides>>

\* Thread t leaves the cleanup gate, or moves on inside it; the exit handler
\* ignores what Iocp_DoOnce returns.
ExitGoto(t, where) ==
    exitPc' = [exitPc EXCEPT ![t] = IF where \in {"return_ok", "return_error"}
                                      THEN "idle" ELSE where]

\* Tcl runs IocpProcessExitHandler in thread t, when the process exits and
\* no thread is inside Iocp_Init:
\* Iocp_DoOnce(&iocpProcessCleanupFlag, IocpProcessCleanup, NULL).
IocpProcessExitHandler(t) ==
    /\ exitHandlers > 0
    /\ \A u \in Threads : oncePc[u] = "idle" /\ calls[u] = initsDone[u]
    /\ exitPc[t] = "idle"
    /\ exitCalls < MaxExits
    /\ exitCalls' = exitCalls + 1
    /\ exitPc' = [exitPc EXCEPT ![t] = "switch"]
    /\ UNCHANGED <<exitFrame, cleanupFlag, cleanupRuns>>
    /\ UNCHANGED <<onceVars, chanVars, wakeVars, tsdVars, linkCalls, bufVars>>

ExitSwitch(t) ==
    /\ exitPc[t] = "switch"
    /\ cleanupFlag' = InterlockedCompareExchange(cleanupFlag,
                          IOCP_INITSTATE_IN_PROGRESS, IOCP_INITSTATE_INIT)
    /\ ExitGoto(t, SwitchCase(cleanupFlag))
    /\ UNCHANGED <<exitFrame, exitCalls, cleanupRuns>>
    /\ UNCHANGED <<onceVars, chanVars, wakeVars, tsdVars, linkCalls, bufVars>>

ExitLoop(t) ==
    /\ exitPc[t] = "loop"
    /\ cleanupFlag' = InterlockedCompareExchange(cleanupFlag,
                          IOCP_INITSTATE_IN_PROGRESS, IOCP_INITSTATE_IN_PROGRESS)
    /\ ExitGoto(t, LoopCase(cleanupFlag))
    /\ UNCHANGED <<exitFrame, exitCalls, cleanupRuns>>
    /\ UNCHANGED <<onceVars, chanVars, wakeVars, tsdVars, linkCalls, bufVars>>

ExitSleep(t) ==
    /\ exitPc[t] = "sleep"
    /\ exitPc' = [exitPc EXCEPT ![t] = "loop"]
    /\ UNCHANGED <<exitFrame, cleanupFlag, exitCalls, cleanupRuns>>
    /\ UNCHANGED <<onceVars, chanVars, wakeVars, tsdVars, linkCalls, bufVars>>

\* The system calls of IocpProcessCleanup, in the order it makes them.
CleanupCallsPortFirst(timedOut) ==
    <<"PostQueuedCompletionStatus", "WaitForSingleObject">>
        \o (IF timedOut THEN <<"TerminateThread">> ELSE <<>>)
        \o <<"CloseHandle(port)", "CloseHandle(thread)", "WSACleanup">>

CleanupCalls(timedOut) ==
    <<"PostQueuedCompletionStatus", "WaitForSingleObject">>
        \o (IF timedOut THEN <<"TerminateThread">> ELSE <<>>)
        \o <<"CloseHandle(thread)", "CloseHandle(port)", "WSACleanup">>

\* IocpProcessCleanup as the once_fn of the cleanup gate. The wait on the
\* dispatcher can time out only while the dispatcher still runs.
IocpProcessCleanup(t) ==
    /\ exitPc[t] = "once_fn"
    /\ \E timedOut \in (IF dispatcher = "running" THEN BOOLEAN ELSE {FALSE}) :
          /\ dispatcher' = IF timedOut THEN "terminated"
                           ELSE IF dispatcher = "running" THEN "exited"
                           ELSE dispatcher
          /\ procLog' = procLog \o CleanupCalls(timedOut)
    /\ threadHandles' = threadHandles - 1
    /\ completion_thread' = NULL
    /\ portHandles' = portHandles - 1
    /\ completion_port' = NULL
    /\ wsaRefs' = wsaRefs - 1
    /\ cleanupRuns' = cleanupRuns + 1
    /\ exitPc' = [exitPc EXCEPT ![t] = "store"]
    /\ UNCHANGED <<exitHandlers, initsDone, initRet, cmdRegs,
                   pkgProvides, cleanupFlag, exitCalls>>
    /\ UNCHANGED <<onceVars, chanVars, wakeVars, tsdVars, linkCalls, bufVars>>

\* IocpProcessCleanup returned TCL_OK: InterlockedExchange(stateP, DONE).
ExitStore(t) ==
    /\ exitPc[t] = "store"
    /\ cleanupFlag' = IOCP_INITSTATE_DONE
    /\ ExitGoto(t, "return_ok")
    /\ UNCHANGED <<exitFrame, exitCalls, cleanupRuns>>
    /\ UNCHANGED <<onceVars, chanVars, wakeVars, tsdVars, linkCalls, bufVars>>

\* The static iocpModuleState and the two gates of a fresh process.
InitProc ==
    /\ completion_port = NULL
    /\ completion_thread = NULL
    /\ portHandles = 0
    /\ threadHandles = 0
    /\ wsaRefs = 0
    /\ dispatcher = "none"
    /\ exitHandlers = 0
    /\ procLog = <<>>
    /\ initsDone = [t \in Threads |-> 0]
    /\ initRet = NoResult
    /\ cmdRegs = 0
    /\ pkgProvides = 0
    /\ cleanupFlag = IOCP_INITSTATE_INIT
    /\ exitPc = [t \in Threads |-> "idle"]
    /\ exitCalls = 0
    /\ cleanupRuns = 0


\* =====================================================================
\* IocpDataBuffer, IocpBufferNew
\* =====================================================================

\* if (capacity): storage is requested only for a non-zero capacity.
InitAllocatesAlways(capacity) == TRUE

InitAllocates(capacity) == capacity # 0

\* The body of IocpDataBufferInit(dataBuf, capacity); allocOk is whether
\* attemptckalloc succeeds when it is called. The result is dataPtr.
DataBufferInit(capacity, allocOk) ==
    /\ dbBegin' = 0
    /\ dbLen' = 0
    /\ dbDataPtr' = (InitAllocates(capacity) /\ allocOk)
    /\ dbCapacity' = IF InitAllocates(capacity) /\ ~allocOk THEN 0 ELSE capacity
    /\ allocFailed' = (allocFailed \/ (InitAllocates(capacity) /\ ~allocOk))

\* IocpDataBufferInit on raw memory that is not part of an IocpBuffer.
IocpDataBufferInit ==
    /\ dbPc = "raw"
    /\ bufNewRet = "none"
    /\ \E capacity \in 0 .. MaxCap, allocOk \in BOOLEAN :
          DataBufferInit(capacity, allocOk)
    /\ dbPc' = "ready"
    /\ UNCHANGED <<moves, lastReq, moveRet, totalReturned, written, copied,
                   bufNewRet, bufStruct>>
    /\ UNCHANGED <<onceVars, chanVars, wakeVars, procVars, tsdVars, linkCalls>>

\* IocpBufferNew(capacity): the structure is allocated, then its data
\* buffer is initialised; a NULL from IocpDataBufferInit frees the structure
\* and makes the call return NULL.
IocpBufferNew ==
    /\ dbPc = "raw"
    /\ bufNewRet = "none"
    /\ \E capacity \in 0 .. MaxCap, structOk \in BOOLEAN, allocOk \in BOOLEAN :
          IF ~structOk
            THEN /\ bufNewRet' = "NULL"
                 /\ allocFailed' = TRUE
                 /\ UNCHANGED <<dbPc, dbCapacity, dbBegin, dbLen, dbDataPtr, bufStruct>>
            ELSE /\ DataBufferInit(capacity, allocOk)
                 /\ IF dbDataPtr'
                      THEN /\ bufNewRet' = "buffer"
                           /\ bufStruct' = TRUE
                           /\ dbPc' = "ready"
                      ELSE /\ bufNewRet' = "NULL"
                           /\ bufStruct' = FALSE
                           /\ dbPc' = "raw"
    /\ UNCHANGED <<moves, lastReq, moveRet, totalReturned, written, copied>>
    /\ UNCHANGED <<onceVars, chanVars, wakeVars, procVars, tsdVars, linkCalls>>

\* A completed transfer put n more bytes into the storage, behind the ones
\* already there.
DataBufferUpdate ==
    /\ dbPc = "ready"
    /\ dbDataPtr
    /\ \E n \in 1 .. MaxCap :
          /\ dbBegin + dbLen + n <= dbCapacity
          /\ dbLen' = dbLen + n
          /\ written' = written + n
    /\ UNCHANGED <<dbPc, dbCapacity, dbBegin, dbDataPtr, moves, lastReq, moveRet,
                   totalReturned, copied, bufNewRet, bufStruct, allocFailed>>
    /\ UNCHANGED <<onceVars, chanVars, wakeVars, procVars, tsdVars, linkCalls>>

\* numCopied = dataBuf->len > len ? len : dataBuf->len
NumCopiedAsRequested(len, req) == req

NumCopied(len, req) == IF len > req THEN req ELSE len

\* IocpDataBufferMove(dataBuf, outPtr, len) with len = req. memcpy with a
\* negative count (converted to a huge size_t) is undefined: the call
\* faults, or memcpy comes back and the call goes on.
IocpDataBufferMove ==
    /\ dbPc = "ready"
    /\ moves < MaxMoves
    /\ \E req \in (0 - 1) .. (MaxCap + 1) :
        LET numCopied == NumCopied(dbLen, req)
        IN  \/ /\ dbDataPtr
               /\ numCopied < 0
               /\ dbPc' = "crashed"
               /\ UNCHANGED <<dbBegin, dbLen, moves, lastReq, moveRet,
                              totalReturned, copied>>
            \/ /\ lastReq' = req
               /\ copied' = IF dbDataPtr /\ numCopied >= 0
                              THEN copied + numCopied ELSE copied
               /\ dbBegin' = dbBegin + numCopied
               /\ dbLen' = dbLen - numCopied
               /\ moveRet' = numCopied
               /\ totalReturned' = totalReturned + numCopied
               /\ moves' = moves + 1
               /\ UNCHANGED dbPc
    /\ UNCHANGED <<dbCapacity, dbDataPtr, written, bufNewRet, bufStruct, allocFailed>>
    /\ UNCHANGED <<onceVars, chanVars, wakeVars, procVars, tsdVars, linkCalls>>

\* Raw memory, and no allocation made yet.
InitBuf ==
    /\ dbPc = "raw"
    /\ dbCapacity = 0
    /\ dbBegin = 0
    /\ dbLen = 0
    /\ dbDataPtr = FALSE
    /\ moves = 0
    /\ lastReq = 0
    /\ moveRet = 0
    /\ totalReturned = 0
    /\ written = 0
    /\ copied = 0
    /\ bufNewRet = "none"
    /\ bufStruct = FALSE
    /\ allocFailed = FALSE

\* =====================================================================
\* Specifications
\* =====================================================================

Init == InitOnce /\ InitChan /\ InitWake /\ InitProc /\ InitTsd /\ InitBuf

\* The same, with the threads' TSDs drawn from the states a TSD can be in.
InitTsdGiven == InitOnce /\ InitChan /\ InitWake /\ InitProc /\ TsdGiven /\ InitBuf

\* A fresh process in which the channel's unassigned fields are clear.
InitProcess == Init /\ ~hasFinalize /\ ~blocked

NextOnce == \E t \in Threads : Iocp_DoOnce(t)

NextChan ==
    \E t \in Threads :
        \/ IocpChannelLock(t)
        \/ IocpChannelUnlock(t)
        \/ IocpChannelAcquire(t)
        \/ LinkChannel(t)
        \/ IocpTsdLinkChannel(t)
        \/ IocpChannelDrop(t)

NextWake ==
    \E t \in Threads :
        \/ IocpChannelLock(t)
        \/ IocpChannelUnlock(t)
        \/ IocpChannelAwaitCompletion(t)
        \/ SpuriousWakeup(t)
        \/ ConditionVariableWaitReturn(t)
        \/ IocpChannelWakeAfterCompletion(t)

NextProc ==
    \/ \E t \in Threads :
          \/ Iocp_InitStubsFail(t)
          \/ Iocp_InitCall(t)
          \/ OnceSwitch(t)
          \/ OnceLoop(t)
          \/ OnceSleep(t)
          \/ IocpProcessInit(t)
          \/ OnceStore(t)
          \/ Iocp_InitFinish(t)
          \/ IocpProcessExitHandler(t)
          \/ ExitSwitch(t)
          \/ ExitLoop(t)
          \/ ExitSleep(t)
          \/ IocpProcessCleanup(t)
          \/ ExitStore(t)
    \/ IocpCompletionThread

NextTsd ==
    \E t \in Threads :
        \/ IocpThreadInit(t)
        \/ IocpTsdUnlinkThread(t)
        \/ IocpThreadExitHandler(t)

NextBuf ==
    \/ IocpDataBufferInit
    \/ IocpBufferNew
    \/ DataBufferUpdate
    \/ IocpDataBufferMove

Next == NextOnce \/ NextChan \/ NextWake \/ NextProc \/ NextTsd \/ NextBuf

Spec == Init /\ [][Next]_vars

SpecOnce == Init /\ [][NextOnce]_vars

SpecChan == Init /\ [][NextChan]_vars

SpecWake == Init /\ [][NextWake]_vars

SpecProc == InitProcess /\ [][NextProc]_vars

SpecTsd == InitTsdGiven /\ [][NextTsd]_vars

SpecBuf == Init /\ [][NextBuf]_vars

\* Fair scheduling of the threads inside Iocp_DoOnce: a thread that can take
\* its next step takes it, Sleep(1) returns and once_fn terminates; when and
\* whether a thread calls Iocp_DoOnce is not forced.
FairSpecOnce ==
    /\ SpecOnce
    /\ \A t \in Threads : WF_vars(OnceSwitch(t))
    /\ \A t \in Threads : WF_vars(OnceLoop(t))
    /\ \A t \in Threads : WF_vars(OnceSleep(t))
    /\ \A t \in Threads : WF_vars(OnceFn(t))
    /\ \A t \in Threads : WF_vars(OnceStore(t))

\* A thread that holds the channel lock gives it up again, and a thread
\* released from the condition variable gets the lock once it is free; when
\* a thread calls await or wake, and spurious wakeups, are not forced.
FairSpecWake ==
    /\ SpecWake
    /\ \A t \in Threads : WF_vars(IocpChannelUnlock(t))
    /\ \A t \in Threads : SF_vars(ConditionVariableWaitReturn(t))


\* =====================================================================
\* Properties of Iocp_DoOnce (SpecOnce)
\* =====================================================================

\* C1: on a gate that starts not-started, once_fn is executed exactly once
\* in total however the threads race: never twice, and never zero times
\* once some Iocp_DoOnce call has returned.
C1_OnceFnExactlyOnce ==
    /\ onceRuns <= 1
    /\ (\E t \in Threads : ret[t] # NoResult) => onceRuns = 1

\* All threads have returned from Iocp_DoOnce and once_fn ran once.
C1_Witness ==
    /\ \A t \in Threads : ret[t] # NoResult
    /\ onceRuns = 1

\* C2: every Iocp_DoOnce call on the gate returns the outcome of the single
\* execution of once_fn: TCL_OK if it returned TCL_OK, TCL_ERROR if it failed,
\* for the caller that ran it, the callers that waited and the late callers.
C2_SameOutcome ==
    \A t \in Threads : ret[t] # NoResult => ret[t] = onceResult

\* once_fn failed and every thread has made all its calls and got TCL_ERROR.
C2_Witness ==
    /\ onceResult = TCL_ERROR
    /\ \A t \in Threads :
          calls[t] = MaxCalls /\ oncePc[t] = "idle" /\ ret[t] = TCL_ERROR

\* C3: failure is permanent: once the gate is in the error state it stays
\* there, once_fn is not invoked again, and every Iocp_DoOnce call that
\* returns from then on returns TCL_ERROR.
C3_FailurePermanent ==
    [][stateP = IOCP_INITSTATE_ERROR =>
          /\ stateP' = IOCP_INITSTATE_ERROR
          /\ onceRuns' = onceRuns
          /\ \A t \in Threads :
                (oncePc[t] # "idle" /\ oncePc'[t] = "idle") => ret'[t] = TCL_ERROR
      ]_vars

\* The gate is in the error state and a thread has finished a second call,
\* made after the failure, with TCL_ERROR and without another run of once_fn.
C3_Witness ==
    /\ stateP = IOCP_INITSTATE_ERROR
    /\ onceRuns = 1
    /\ \E t \in Threads :
          calls[t] = MaxCalls /\ oncePc[t] = "idle" /\ ret[t] = TCL_ERROR

\* C21: no Iocp_DoOnce call has returned TCL_OK unless once_fn has run
\* once, returned TCL_OK and the gate is done; the gate is done only after
\* once_fn has returned and its result has been stored; and a caller in the
\* wait loop leaves it only when the gate is no longer in progress.
C21_NoOkBeforeOnceFnDone ==
    /\ []((\E t \in Threads : ret[t] = TCL_OK) =>
             (onceRuns = 1 /\ onceResult = TCL_OK /\ stateP = IOCP_INITSTATE_DONE))
    /\ [](stateP = IOCP_INITSTATE_DONE =>
             /\ onceResult = TCL_OK
             /\ \A t \in Threads : oncePc[t] \notin {"once_fn", "store"})
    /\ [][\A t \in Threads :
             (oncePc[t] \in {"switch", "loop", "sleep"} /\ oncePc'[t] = "idle") =>
                 stateP # IOCP_INITSTATE_IN_PROGRESS]_vars

\* A caller that arrived during the initialisation is in its wait loop
\* while once_fn has returned TCL_OK and the gate is still in progress.
C21_Witness ==
    /\ stateP = IOCP_INITSTATE_IN_PROGRESS
    /\ onceResult = TCL_OK
    /\ \E t \in Threads : oncePc[t] = "store"
    /\ \E t \in Threads : oncePc[t] \in {"loop", "sleep"}

\* C22: under fair scheduling, with once_fn terminating, every call to
\* Iocp_DoOnce returns.
C22_EveryCallReturns ==
    \A t \in Threads : (oncePc[t] # "idle") ~> (oncePc[t] = "idle")

\* A caller is asleep in the wait loop after the initialising thread has
\* stored the result.
C22_Witness ==
    /\ stateP \in {IOCP_INITSTATE_DONE, IOCP_INITSTATE_ERROR}
    /\ \E t \in Threads : oncePc[t] = "sleep"
    /\ \A t \in Threads : oncePc[t] \notin {"once_fn", "store"}

\* =====================================================================
\* Properties of the channel life cycle (SpecChan)
\* =====================================================================

\* C23: IocpChannelDrop, entered with the channel locked, returns with the
\* channel's lock released, whether it frees the channel or not.
C23_DropReturnsUnlocked ==
    [][drops' = drops + 1 => chanLock' = Unlocked]_vars

\* C5: a channel created with refcount 1 on which N more references were
\* taken is freed by exactly the (N+1)-th IocpChannelDrop and by no earlier
\* one, and that drop runs the finalize hook (when the vtable has one) once,
\* then unlocks, deletes the lock and releases the storage, in this order.
C5_FreedByLastDrop ==
    /\ (Count(chanLog, "ckfree") = 0) <=> (drops <= acquires)
    /\ (drops = acquires + 1) =>
          /\ ~chanAlloc
          /\ chanLog = (IF hasFinalize THEN <<"finalize">> ELSE <<>>)
                          \o <<"unlock", "lock_delete", "ckfree">>

\* Two references were taken and the third drop has freed the channel, whose
\* vtable has a finalize hook.
C5_Witness ==
    /\ acquires = 2
    /\ drops = 3
    /\ hasFinalize
    /\ ~chanAlloc

\* C6: releasing the channel more often than it was acquired does not
\* double-free: the finalize hook never runs a second time and the storage
\* is never released a second time.
C6_NoDoubleFree ==
    /\ Count(chanLog, "ckfree") <= 1
    /\ Count(chanLog, "finalize") <= 1

\* C7: a channel that is still linked to a TSD (tsdPtr set, or its ready-link
\* in a ready queue) when IocpChannelDrop brings the refcount to zero or
\* below is not freed.
C7_NotFreedWhileLinked ==
    ~chanAlloc => (tsdPtr = NULL /\ ~readyLinked)

\* =====================================================================
\* Properties of await / wake (SpecWake, FairSpecWake)
\* =====================================================================

C8_AwaitLockDiscipline ==
    \A t \in Threads :
        /\ chPc[t] = "waiting" => (blocked /\ chanLock # t /\ t \in cvWaiters)
        /\ chPc[t] = "woken" => chanLock # t
        /\ chPc[t] = "returned" => chanLock = t

\* The user thread is blocked in its second await, its first has returned,
\* and another thread holds the channel lock.
C8_Witness ==
    /\ chPc[User] = "waiting"
    /\ awaitsReturned >= 1
    /\ chanLock \in Threads \ {User}

\* C9: IocpChannelWakeAfterCompletion clears the blocked flag and signals the
\* condition variable, releasing at most one waiter, exactly when the flag is
\* set; when the flag is clear it issues no signal and leaves the flags and
\* every other field of the channel unchanged.
C9_WakeFrame ==
    [][wakes' = wakes + 1 =>
          IF blocked
            THEN /\ ~blocked'
                 /\ signals' = signals + 1
                 /\ Cardinality(cvWaiters') >= Cardinality(cvWaiters) - 1
                 /\ cvWaiters # {} => cvWaiters' # cvWaiters
                 /\ UNCHANGED <<numRefs, chanLock, tsdPtr, readyLinked,
                                hasFinalize, chanAlloc, chanLog>>
            ELSE UNCHANGED <<chanVars, cvWaiters, signals, chPc>>
      ]_vars

\* Two wakes were made, one that found the flag set by an await and
\* signalled, one that found it clear.
C9_Witness ==
    /\ awaits >= 1
    /\ wakes = 2
    /\ signals = 1

\* C10: on a channel whose owner has called await, the blocked flag is set
\* only while the owner is inside IocpChannelAwaitCompletion waiting on the
\* condition variable; it is not set after the waiter has returned, also
\* after a spurious wakeup.
C10_FlagOnlyWhileWaiting ==
    (awaits >= 1 /\ blocked) => chPc[User] \in {"waiting", "woken"}

\* =====================================================================
\* Iocp_Init and the completion subsystem
\* =====================================================================

\* C11: Iocp_Init returns TCL_OK, having registered the iocp::socket command
\* and provided the package, whenever the process's one-time initialisation
\* has succeeded and IocpThreadInit reports success; it returns TCL_ERROR
\* only when one of those two steps fails.
C11_InitOkWhenBothSucceed ==
    [][\A t \in Threads :
          initsDone'[t] = initsDone[t] + 1 =>
              /\ (ret[t] = TCL_OK /\ threadInitRet' = TCL_OK) =>
                     /\ initRet' = TCL_OK
                     /\ cmdRegs' = cmdRegs + 1
                     /\ pkgProvides' = pkgProvides + 1
              /\ initRet' = TCL_ERROR =>
                     (ret[t] # TCL_OK \/ threadInitRet' # TCL_OK)]_vars

\* C12: the first IocpThreadInit in a thread creates exactly one TSD with
\* one reference, the thread's id and an empty ready queue, and registers
\* the event source and the thread-exit handler; an IocpThreadInit in a
\* thread that has a TSD creates and registers nothing.
C12_FirstThreadInitCreatesTsd ==
    [][\A t \in Threads :
          (threadInits' = threadInits + 1 /\ tsdCaller' = t) =>
              IF tsdSlot[t] = NULL
                THEN /\ tsdSlot'[t] # NULL
                     /\ tsdAlloc'[tsdSlot'[t]]
                     /\ tsdRefs'[tsdSlot'[t]] = 1
                     /\ tsdThreadId'[tsdSlot'[t]] = t
                     /\ tsdReady'[tsdSlot'[t]] = 0
                     /\ eventSources'[t] = eventSources[t] + 1
                     /\ threadExitHandlers'[t] = threadExitHandlers[t] + 1
                ELSE UNCHANGED <<tsdSlot, tsdAlloc, tsdRefs, eventSources,
                                 threadExitHandlers>>]_vars

\* C13: a TSD is freed only with an empty ready queue and a reference count
\* of zero or less; a count of zero or less with a non-empty queue means the
\* panic was raised and the TSD was not freed; a TSD whose count is above
\* zero has not been freed.
C13_TsdFreedOnlyWhenEmpty ==
    \A i \in Threads :
        /\ tsdFrees[i] >= 1 => (tsdReady[i] = 0 /\ tsdRefs[i] <= 0)
        /\ (tsdRefs[i] <= 0 /\ tsdReady[i] # 0) =>
               (panicked /\ tsdFrees[i] = 0 /\ tsdAlloc[i])
        /\ tsdRefs[i] > 0 => (tsdFrees[i] = 0 /\ tsdAlloc[i])

\* A TSD dropped to zero with a channel queued: the panic, and no free.
C13_Witness ==
    \E i \in Threads :
        /\ unlinkCalls > 0
        /\ panicked
        /\ tsdRefs[i] <= 0
        /\ tsdReady[i] # 0
        /\ tsdAlloc[i]
        /\ tsdFrees[i] = 0

\* C14: once IocpProcessInit has failed, the port handle is closed and the
\* stored handle is NULL, every successful WSAStartup has been matched by a
\* WSACleanup and no other WSACleanup was made, there is no dispatcher and
\* no handle to one, no exit handler is registered, and the gate is in
\* progress until the result is stored and in error from then on.
C14_FailedInitUnwinds ==
    onceResult = TCL_ERROR =>
        /\ completion_port = NULL
        /\ portHandles = 0
        /\ wsaRefs = 0
        /\ completion_thread = NULL
        /\ threadHandles = 0
        /\ dispatcher = "none"
        /\ exitHandlers = 0
        /\ stateP = IF \E t \in Threads : oncePc[t] = "store"
                      THEN IOCP_INITSTATE_IN_PROGRESS
                      ELSE IOCP_INITSTATE_ERROR

C14_Witness ==
    /\ onceResult = TCL_ERROR
    /\ stateP = IOCP_INITSTATE_ERROR
    /\ initRet = TCL_ERROR
    /\ \E t \in Threads : initsDone[t] > 0

\* C15: IocpProcessCleanup runs at most once, however often and in however
\* many threads the exit handler fires, and only in a process whose
\* IocpProcessInit succeeded.
C15_CleanupAtMostOnce ==
    /\ cleanupRuns <= 1
    /\ cleanupRuns >= 1 => onceResult = TCL_OK

\* The exit handler has fired more than once, in different threads, and
\* the cleanup has run.
C15_Witness ==
    /\ cleanupRuns = 1
    /\ exitCalls > 1
    /\ cleanupFlag = IOCP_INITSTATE_DONE
    /\ \A t \in Threads : exitPc[t] = "idle"

\* =====================================================================
\* Data buffers
\* =====================================================================

\* C16: a returning IocpDataBufferMove returns the smaller of the buffer's
\* length and the requested length, advances begin and reduces the length by
\* that count, and copies no bytes when the buffer has no storage.
C16_MoveReturnsMin ==
    [][moves' = moves + 1 =>
          /\ moveRet' = (IF dbLen <= lastReq' THEN dbLen ELSE lastReq')
          /\ dbBegin' = dbBegin + moveRet'
          /\ dbLen' = dbLen - moveRet'
          /\ (~dbDataPtr => copied' = copied)
          /\ (dbDataPtr /\ moveRet' >= 0 => copied' = copied + moveRet')]_vars

\* A move that asked for more than the buffer held and got all of it.
C16_Witness ==
    /\ moves >= 1
    /\ moveRet >= 1
    /\ moveRet < lastReq
    /\ dbLen = 0
    /\ copied = moveRet

\* C17: over any sequence of IocpDataBufferMove calls with any integer
\* requested lengths, the length never increases from one call to the next
\* and is never negative, and the sum of the returned counts never exceeds
\* the bytes that were put into the buffer.
C17_LengthNeverIncreases ==
    [][moves' = moves + 1 =>
          /\ dbLen' <= dbLen
          /\ dbLen' >= 0
          /\ totalReturned' <= written]_vars

\* C18: an initialised data buffer has begin + length <= capacity, and has
\* no storage when its capacity is 0, after any IocpDataBufferMove calls.
C18_BufferInvariant ==
    dbPc \in {"ready", "crashed"} =>
        /\ dbBegin + dbLen <= dbCapacity
        /\ dbCapacity = 0 => ~dbDataPtr

\* A buffer filled to its capacity and partly moved out, and a buffer whose
\* allocation failed, are both reached.
C18_Witness ==
    /\ dbPc = "ready"
    /\ moves >= 1
    /\ \/ dbBegin > 0 /\ dbLen > 0 /\ dbBegin + dbLen = dbCapacity
       \/ allocFailed /\ dbCapacity = 0 /\ bufNewRet = "none"

\* C19: IocpBufferNew returns NULL only when an allocation has failed, and
\* then leaves nothing allocated; IocpBufferNew(0) returns a buffer.
C19_NullOnlyOnAllocFailure ==
    bufNewRet = "NULL" => (allocFailed /\ ~bufStruct /\ ~dbDataPtr)

\* =====================================================================
\* Linking a channel to a TSD
\* =====================================================================

\* C20: IocpTsdLinkChannel on a locked channel that is linked nowhere puts
\* it on the calling thread's ready queue and sets its owning-TSD link.
C20_LinkChannelLinks ==
    [][\A t \in Threads :
          (linkCalls' = linkCalls + 1 /\ chanLock = t) =>
              (readyLinked' /\ tsdPtr' = t)]_vars

\* =====================================================================
\* Thread exit, process cleanup, a new channel's flag
\* =====================================================================

\* C24: an IocpTsdUnlinkThread call in a thread whose slot holds a TSD
\* clears the slot, sets that TSD's thread id to 0, drops exactly one of its
\* references and, when it returns, leaves it unlocked, freed or not; a call
\* in a thread whose slot is clear changes nothing.
C24_UnlinkThreadOnce ==
    [][\A t \in Threads :
          (unlinkCalls' = unlinkCalls + 1 /\ tsdCaller' = t) =>
              IF tsdSlot[t] # NULL
                THEN /\ tsdSlot'[t] = NULL
                     /\ tsdThreadId'[tsdSlot[t]] = 0
                     /\ tsdRefs'[tsdSlot[t]] = tsdRefs[tsdSlot[t]] - 1
                     /\ ~panicked' => tsdLock'[tsdSlot[t]] = Unlocked
                     /\ tsdFrees'[tsdSlot[t]] <= 1
                ELSE UNCHANGED <<tsdSlot, tsdAlloc, tsdRefs, tsdThreadId, tsdLock,
                                 tsdReady, tsdFrees, panicked>>]_vars

\* The user thread has unlinked its TSD, which lives on with a reference
\* left, and called again.
C24_Witness ==
    /\ unlinkCalls > 1
    /\ tsdCaller = User
    /\ eventSources[User] = 0
    /\ tsdSlot[User] = NULL
    /\ tsdThreadId[User] = 0
    /\ tsdAlloc[User]
    /\ tsdRefs[User] >= 1
    /\ tsdLock[User] = Unlocked

\* C25: once IocpProcessCleanup has run, its calls were made in this order:
\* the sentinel completion is posted before the wait on the dispatcher, the
\* dispatcher is terminated only after a wait that timed out, the thread
\* handle is closed before the port handle; both stored handles are NULL
\* and WSACleanup was called exactly once, releasing the one WSAStartup.
C25_CleanupOrder ==
    cleanupRuns >= 1 =>
        /\ \A i, j \in DOMAIN procLog :
              /\ (procLog[i] = "PostQueuedCompletionStatus"
                    /\ procLog[j] = "WaitForSingleObject") => i < j
              /\ (procLog[i] = "WaitForSingleObject"
                    /\ procLog[j] = "TerminateThread") => i < j
              /\ (procLog[i] = "CloseHandle(thread)"
                    /\ procLog[j] = "CloseHandle(port)") => i < j
        /\ \A name \in {"PostQueuedCompletionStatus", "WaitForSingleObject",
                        "CloseHandle(thread)", "CloseHandle(port)", "WSACleanup"} :
              Count(procLog, name) = 1
        /\ Count(procLog, "TerminateThread") =
              (IF dispatcher = "terminated" THEN 1 ELSE 0)
        /\ completion_thread = NULL
        /\ completion_port = NULL
        /\ threadHandles = 0
        /\ portHandles = 0
        /\ wsaRefs = 0

\* The cleanup has run and its wait on the dispatcher timed out.
C25_Witness ==
    /\ cleanupRuns = 1
    /\ dispatcher = "terminated"
    /\ Count(procLog, "TerminateThread") = 1
    /\ completion_port = NULL

\* C26: the channel IocpChannelNew returns has the blocked-for-I/O flag
\* clear, and while IocpChannelAwaitCompletion has not been called an
\* IocpChannelWakeAfterCompletion call signals nothing and changes no flag.
C26_NewChannelFlagClear ==
    [][(wakes' = wakes + 1 /\ awaits = 0) =>
          (~blocked /\ signals' = signals /\ blocked' = blocked)]_vars
====
